---- MODULE Spec2Model ----
(***************************************************************************)
(* Model of the ladder order controller of PythonApplication2.py:          *)
(* monitor_and_place_orders and its helpers, run against a venue that      *)
(* keeps orders and trades and may fail any call.                          *)
(*                                                                         *)
(* Prices are integers in units of 0.1 (500 is 50.0); times are integer    *)
(* seconds (the code divides millisecond timestamps by 1000 and the age    *)
(* in seconds by 60).                                                      *)
(***************************************************************************)
EXTENDS Integers, Naturals, Sequences, FiniteSets, TLC

VARIABLES
    pc,               \* position of monitor_and_place_orders
    symbols_has,      \* trading_pair in exchange.symbols
    market,           \* exchange.markets.get(trading_pair), see get_tick_size
    tick_size,        \* local tick_size
    num_orders,       \* parameter num_orders
    price_difference, \* parameter price_difference
    buy_orders,       \* local dict buy_orders: id -> price
    executed_buys,    \* local list executed_buys
    current_price,    \* ticker['last'] of this cycle
    open_orders,      \* snapshot returned by fetch_open_orders
    oi,               \* index of the for loop over open_orders
    now,              \* datetime.utcnow() of this cycle
    filled_orders,    \* snapshot returned by fetch_filled_orders
    ti,               \* index of the for loop over filled_orders
    orders,           \* venue: every order ever accepted, index = order id
    trades,           \* venue: trade history of the account
    last,             \* venue: last traded price of the pair
    clock,            \* wall clock, seconds
    cycle,            \* number of loop iterations started
    lastSleep,        \* argument of the last time.sleep call, 0 before any
    calls,            \* exchange calls issued in the current iteration
    sellLog,          \* every sell placement attempted so far
    clean,            \* no call failed, nothing cancelled, nothing sold so far
    owed,             \* cycle of the last rejected buy not yet made up for
    events            \* failed calls and fills the venue has produced so far

vars == <<pc, symbols_has, market, tick_size, num_orders, price_difference,
          buy_orders, executed_buys, current_price, open_orders, oi, now,
          filled_orders, ti, orders, trades, last, clock, cycle, lastSleep,
          calls, sellLog, clean, owed, events>>

----------------------------------------------------------------------------
(* Bounds of the exploration: loop iterations started, and events the      *)
(* venue produces on its own (a failed call or a fill)                     *)

MaxCycles == 5
MaxEvents == 3

(* Largest price given to round_price on its own *)
MaxPrice == 40

(* Program constants *)

CadenceSeconds == 60
CooldownSeconds == 5
ExpiryMinutes == 3

(* Python's None, for values the code compares to None *)
None == -1

(* Inputs: ticker prices (50.0, 50.3), price_difference (1.0), tick sizes   *)
(* (0.1, 0.5), seconds the calls before utcnow() take, positions of the    *)
(* controller at which the venue may fill an order, and the time at start  *)
Prices == {500, 503}
Offsets == {10}
TickSizes == {1, 5}
Latency == {1}
FillPoints == {"loop", "expire"}
StartClock == 1000

(* The market moves between two fetches of the ticker: the last price      *)
(* alternates between the values of Prices                                 *)
MarketMove(p) == CHOOSE q \in Prices : q # p

----------------------------------------------------------------------------
(* round(): Python 3 rounds a quotient to the nearest integer, ties to even *)
PyRound(p, t) ==
    LET fl == p \div t
        r  == p % t
    IN  IF 2 * r < t THEN fl
        ELSE IF 2 * r > t THEN fl + 1
        ELSE IF fl % 2 = 0 THEN fl ELSE fl + 1

round_price_Quotient(price, t) ==
    IF t # 0 THEN PyRound(price, t) ELSE price

round_price(price, t) ==
    IF t # 0 THEN PyRound(price, t) * t ELSE price

get_tick_size_Zero(m) ==
    IF m.present /\ m.has_precision /\ m.price # None THEN m.price ELSE 0

get_tick_size(m) ==
    IF m.present /\ m.has_precision THEN m.price ELSE None

----------------------------------------------------------------------------
(* Venue *)

Ids == 1..Len(orders)

RECURSIVE OpenFrom(_)
OpenFrom(i) ==
    IF i > Len(orders) THEN <<>>
    ELSE IF orders[i].status = "open"
         THEN <<[id |-> i, side |-> orders[i].side, price |-> orders[i].price,
                 timestamp |-> orders[i].timestamp]>> \o OpenFrom(i + 1)
         ELSE OpenFrom(i + 1)

VenueOpenOrders == OpenFrom(1)

OpenBuyCount ==
    Cardinality({id \in Ids : orders[id].status = "open"
                              /\ orders[id].side = "buy"})

NewOrder(side, price) ==
    [side |-> side, price |-> price, timestamp |-> clock, status |-> "open",
     mine |-> TRUE]

Call(op, site, id, ref, side, price, ok) ==
    [op |-> op, site |-> site, id |-> id, ref |-> ref, side |-> side,
     price |-> price, ok |-> ok]

(* Orders and trades the account holds before the controller starts *)
ForeignBuy(ts, st) ==
    [side |-> "buy", price |-> 480, timestamp |-> ts, status |-> st,
     mine |-> FALSE]

ForeignSell(ts) ==
    [side |-> "sell", price |-> 520, timestamp |-> ts, status |-> "open",
     mine |-> FALSE]

(* Runs explored: parameters of monitor_and_place_orders, tick size and     *)
(* last price of the pair, and the account's orders and trades at startup. *)
(* The foreign buy of one run is exactly 180 seconds old when the first     *)
(* cycle reads the time; in one run the market's precision['price'] is 0.  *)
Setups ==
    { [tick |-> 1, depth |-> 2, price |-> 500, o |-> <<>>, t |-> <<>>],
      [tick |-> 5, depth |-> 1, price |-> 503, o |-> <<>>, t |-> <<>>],
      [tick |-> 0, depth |-> 1, price |-> 503, o |-> <<>>, t |-> <<>>],
      [tick |-> 5, depth |-> 2, price |-> 500,
       o |-> <<ForeignBuy(StartClock + 1 - 180, "open")>>, t |-> <<>>],
      [tick |-> 1, depth |-> 1, price |-> 503,
       o |-> <<ForeignSell(StartClock - 600),
               ForeignBuy(StartClock - 600, "filled")>>,
       t |-> <<[order |-> 2, side |-> "buy", price |-> 480]>>] }

Markets ==
    { [present |-> TRUE, has_precision |-> TRUE, price |-> t] : t \in TickSizes }

BadMarkets ==
    { [present |-> FALSE, has_precision |-> FALSE, price |-> None],
      [present |-> TRUE, has_precision |-> FALSE, price |-> None],
      [present |-> TRUE, has_precision |-> TRUE, price |-> None] }

----------------------------------------------------------------------------
Init ==
    /\ pc = "start"
    /\ \/ /\ symbols_has = TRUE
          /\ \E s \in Setups :
               /\ market = [present |-> TRUE, has_precision |-> TRUE,
                            price |-> s.tick]
               /\ num_orders = s.depth
               /\ orders = s.o
               /\ trades = s.t
               /\ last = s.price
       \/ /\ symbols_has \in BOOLEAN
          /\ market \in BadMarkets
          /\ symbols_has => market.present
          /\ num_orders = 1
          /\ orders = <<>> /\ trades = <<>>
          /\ last \in Prices
       \/ /\ symbols_has = FALSE
          /\ market \in Markets
          /\ num_orders = 1
          /\ orders = <<>> /\ trades = <<>>
          /\ last \in Prices
    /\ price_difference \in Offsets
    /\ tick_size = None
    /\ buy_orders = <<>>
    /\ executed_buys = <<>>
    /\ current_price = 0
    /\ open_orders = <<>>
    /\ oi = 1
    /\ now = 0
    /\ filled_orders = <<>>
    /\ ti = 1
    /\ clock = StartClock
    /\ cycle = 0
    /\ lastSleep = 0
    /\ calls = <<>>
    /\ sellLog = <<>>
    /\ clean = TRUE
    /\ owed = 0
    /\ events = 0

----------------------------------------------------------------------------
(* Helpers of the loop body *)

DictSet(d, k, v) == [x \in (DOMAIN d) \cup {k} |-> IF x = k THEN v ELSE d[x]]

Contains(list, x) == \E i \in 1..Len(list) : list[i] = x

\* line 98-101: age_minutes = (now - order_time).total_seconds() / 60
IsStale_AtThreshold(order, t) ==
    order.side = "buy" /\ (t - order.timestamp) >= ExpiryMinutes * 60

IsStale_AnySide(order, t) ==
    (t - order.timestamp) > ExpiryMinutes * 60

IsStale(order, t) ==
    order.side = "buy" /\ (t - order.timestamp) > ExpiryMinutes * 60

\* line 115
NeedsSell_Unchecked(trade, executed) ==
    trade.side = "buy"

NeedsSell(trade, executed) ==
    trade.side = "buy" /\ ~Contains(executed, trade.order)

\* line 106, 126
BuyPrice_Unrounded(price) == price - price_difference

BuyPrice(price) == round_price(price - price_difference, tick_size)

\* line 120
SellPrice_FromMarket(trade) ==
    round_price(current_price + price_difference, tick_size)

SellPrice(trade) == round_price(trade.price + price_difference, tick_size)

\* line 124
BelowTarget_Inclusive(d) == Cardinality(DOMAIN d) <= num_orders

BelowTarget_Always(d) == TRUE

BelowTarget(d) == Cardinality(DOMAIN d) < num_orders

\* line 108-109, 128-129; order is 0 when place_order returned None
Register_Dropped(d, order, price) == d

Register(d, order, price) == IF order # 0 THEN DictSet(d, order, price) ELSE d

\* line 103 is outside any inner try: the exception reaches line 134
OnCancelError_Swallowed(next) == next

OnCancelError_Fatal(next) == "exit"

OnCancelError(next) == "except"

\* line 42-44, 50-52: the helper catches the exception and returns []
OnFetchError_Raises(next) == "except"

OnFetchError(next) == next

\* line 132, 137
SleepNormal == CadenceSeconds

SleepAfterError_Cadence == CadenceSeconds

SleepAfterError == CooldownSeconds

\* place_order returned None for a buy that leaves fewer than num_orders buys
\* open: the cycle is remembered until a later buy placement succeeds
Owe(ok, open_after) ==
    IF ok THEN 0 ELSE IF open_after < num_orders THEN cycle ELSE owed

----------------------------------------------------------------------------
(* monitor_and_place_orders *)

Startup ==
    /\ pc = "start"
    /\ IF ~symbols_has
       THEN pc' = "exit" /\ UNCHANGED tick_size
       ELSE /\ tick_size' = get_tick_size(market)
            /\ pc' = IF tick_size' = None THEN "exit" ELSE "loop"
    /\ UNCHANGED <<last, symbols_has, market, num_orders, price_difference,
                   buy_orders, executed_buys, current_price, open_orders, oi,
                   now, filled_orders, ti, orders, trades, clock, cycle,
                   lastSleep, calls, sellLog, clean, owed, events>>

\* An exchange call succeeds, or fails while the venue's budget of events
\* lasts; the cancel of an order that is no longer open always fails
Outcome(ok) ==
    /\ ok \/ events < MaxEvents
    /\ events' = IF ok THEN events ELSE events + 1

FetchTicker ==
    /\ pc = "loop"
    /\ cycle < MaxCycles
    /\ cycle' = cycle + 1
    /\ \E ok \in BOOLEAN :
         /\ Outcome(ok)
         /\ IF ok
            THEN /\ current_price' = last
                 /\ calls' = <<Call("fetch_ticker", "-", 0, 0, "-", last, TRUE)>>
                 /\ pc' = "open"
                 /\ UNCHANGED clean
            ELSE /\ calls' = <<Call("fetch_ticker", "-", 0, 0, "-", 0, FALSE)>>
                 /\ pc' = "except"
                 /\ clean' = FALSE
                 /\ UNCHANGED current_price
    /\ last' = MarketMove(last)
    /\ UNCHANGED <<symbols_has, market, tick_size, num_orders,
                   price_difference, buy_orders, executed_buys, open_orders,
                   oi, now, filled_orders, ti, orders, trades, clock,
                   lastSleep, sellLog, owed>>

FetchOpenOrders ==
    /\ pc = "open"
    /\ \E d \in Latency : clock' = clock + d
    /\ now' = clock'
    /\ \E ok \in BOOLEAN :
         /\ Outcome(ok)
         /\ open_orders' = IF ok THEN VenueOpenOrders ELSE <<>>
         /\ calls' = Append(calls,
                Call("fetch_open_orders", "-", 0, 0, "-", 0, ok))
         /\ clean' = (clean /\ ok)
         /\ pc' = IF ~ok THEN OnFetchError("filled")
                  ELSE IF open_orders' = <<>> THEN "filled" ELSE "expire"
    /\ oi' = 1
    /\ UNCHANGED <<last, symbols_has, market, tick_size, num_orders,
                   price_difference, buy_orders, executed_buys, current_price,
                   filled_orders, ti, orders, trades, cycle, lastSleep,
                   sellLog, owed>>

ExpireOrder ==
    /\ pc = "expire"
    /\ LET order == open_orders[oi]
           next  == IF oi = Len(open_orders) THEN "filled" ELSE "expire"
           new_price == BuyPrice(current_price)
           new_id == Len(orders) + 1
           cancelled == [orders EXCEPT ![order.id].status = "cancelled"]
       IN  IF IsStale(order, now)
           THEN \E cancel_ok \in BOOLEAN :
                  /\ cancel_ok => orders[order.id].status = "open"
                  /\ IF cancel_ok
                     THEN \E ok \in BOOLEAN :
                            /\ Outcome(ok)
                            /\ orders' = IF ok
                                         THEN Append(cancelled,
                                                  NewOrder("buy", new_price))
                                         ELSE cancelled
                            /\ buy_orders' = Register(buy_orders,
                                   IF ok THEN new_id ELSE 0, new_price)
                            /\ calls' = calls \o
                                 <<Call("cancel_order", "-", order.id, 0, "-",
                                        0, TRUE),
                                   Call("create_order", "replace",
                                        IF ok THEN new_id ELSE 0, order.id,
                                        "buy", new_price, ok)>>
                            /\ owed' = Owe(ok, OpenBuyCount - 1)
                            /\ oi' = oi + 1
                            /\ pc' = next
                     ELSE /\ IF orders[order.id].status = "open"
                             THEN Outcome(FALSE)
                             ELSE UNCHANGED events
                          /\ calls' = Append(calls,
                               Call("cancel_order", "-", order.id, 0, "-", 0,
                                    FALSE))
                          /\ pc' = OnCancelError(next)
                          /\ UNCHANGED <<orders, buy_orders, oi, owed>>
                  /\ clean' = FALSE
           ELSE /\ oi' = oi + 1
                /\ pc' = next
                /\ UNCHANGED <<orders, buy_orders, calls, clean, owed,
                               events>>
    /\ UNCHANGED <<last, symbols_has, market, tick_size, num_orders,
                   price_difference, executed_buys, current_price, open_orders,
                   now, filled_orders, ti, trades, clock, cycle, lastSleep,
                   sellLog>>

FetchFilledOrders ==
    /\ pc = "filled"
    /\ \E ok \in BOOLEAN :
         /\ Outcome(ok)
         /\ filled_orders' = IF ok THEN trades ELSE <<>>
         /\ calls' = Append(calls,
                Call("fetch_my_trades", "-", 0, 0, "-", 0, ok))
         /\ clean' = (clean /\ ok)
         /\ pc' = IF ~ok THEN OnFetchError("replenish")
                  ELSE IF filled_orders' = <<>> THEN "replenish" ELSE "convert"
    /\ ti' = 1
    /\ UNCHANGED <<last, symbols_has, market, tick_size, num_orders,
                   price_difference, buy_orders, executed_buys, current_price,
                   open_orders, oi, now, orders, trades, clock, cycle,
                   lastSleep, sellLog, owed>>

ConvertTrade ==
    /\ pc = "convert"
    /\ LET trade == filled_orders[ti]
           sell_price == SellPrice(trade)
           new_id == Len(orders) + 1
       IN  IF NeedsSell(trade, executed_buys)
           THEN /\ executed_buys' = Append(executed_buys, trade.order)
                /\ \E ok \in BOOLEAN :
                     /\ Outcome(ok)
                     /\ orders' = IF ok
                                  THEN Append(orders,
                                              NewOrder("sell", sell_price))
                                  ELSE orders
                     /\ calls' = Append(calls,
                            Call("create_order", "sell",
                                 IF ok THEN new_id ELSE 0, trade.order, "sell",
                                 sell_price, ok))
                     /\ sellLog' = Append(sellLog,
                            [order |-> trade.order, price |-> sell_price,
                             ok |-> ok, cycle |-> cycle])
                /\ clean' = FALSE
           ELSE UNCHANGED <<executed_buys, orders, calls, sellLog, clean,
                            events>>
    /\ ti' = ti + 1
    /\ pc' = IF ti = Len(filled_orders) THEN "replenish" ELSE "convert"
    /\ UNCHANGED <<last, symbols_has, market, tick_size, num_orders,
                   price_difference, buy_orders, current_price, open_orders,
                   oi, now, filled_orders, trades, clock, cycle, lastSleep,
                   owed>>

Replenish ==
    /\ pc = "replenish"
    /\ LET buy_price == BuyPrice(current_price)
           new_id == Len(orders) + 1
       IN  IF BelowTarget(buy_orders)
           THEN \E ok \in BOOLEAN :
                  /\ Outcome(ok)
                  /\ orders' = IF ok
                               THEN Append(orders, NewOrder("buy", buy_price))
                               ELSE orders
                  /\ buy_orders' = Register(buy_orders,
                                      IF ok THEN new_id ELSE 0, buy_price)
                  /\ calls' = Append(calls,
                         Call("create_order", "replenish",
                              IF ok THEN new_id ELSE 0, 0, "buy", buy_price,
                              ok))
                  /\ clean' = (clean /\ ok)
                  /\ owed' = Owe(ok, OpenBuyCount)
           ELSE UNCHANGED <<orders, buy_orders, calls, clean, owed, events>>
    /\ pc' = "sleep"
    /\ UNCHANGED <<last, symbols_has, market, tick_size, num_orders,
                   price_difference, executed_buys, current_price, open_orders,
                   oi, now, filled_orders, ti, trades, clock, cycle, lastSleep,
                   sellLog>>

Sleep ==
    /\ pc = "sleep"
    /\ lastSleep' = SleepNormal
    /\ clock' = clock + lastSleep'
    /\ pc' = "loop"
    /\ UNCHANGED <<last, symbols_has, market, tick_size, num_orders,
                   price_difference, buy_orders, executed_buys, current_price,
                   open_orders, oi, now, filled_orders, ti, orders, trades,
                   cycle, calls, sellLog, clean, owed, events>>

Except ==
    /\ pc = "except"
    /\ lastSleep' = SleepAfterError
    /\ clock' = clock + lastSleep'
    /\ pc' = "loop"
    /\ UNCHANGED <<last, symbols_has, market, tick_size, num_orders,
                   price_difference, buy_orders, executed_buys, current_price,
                   open_orders, oi, now, filled_orders, ti, orders, trades,
                   cycle, calls, sellLog, clean, owed, events>>

----------------------------------------------------------------------------
(* The venue fills an open buy order, wholly or in part *)
VenueFill ==
    /\ pc \in FillPoints
    /\ events < MaxEvents
    /\ events' = events + 1
    /\ \E id \in Ids :
         /\ orders[id].status = "open"
         /\ orders[id].side = "buy"
         /\ trades' = Append(trades, [order |-> id, side |-> "buy",
                                      price |-> orders[id].price])
         /\ \E whole \in BOOLEAN :
              orders' = IF whole
                        THEN [orders EXCEPT ![id].status = "filled"]
                        ELSE orders
    /\ UNCHANGED <<last, pc, symbols_has, market, tick_size, num_orders,
                   price_difference, buy_orders, executed_buys, current_price,
                   open_orders, oi, now, filled_orders, ti, clock, cycle,
                   lastSleep, calls, sellLog, clean, owed>>

Next ==
    \/ Startup
    \/ FetchTicker
    \/ FetchOpenOrders
    \/ ExpireOrder
    \/ FetchFilledOrders
    \/ ConvertTrade
    \/ Replenish
    \/ Sleep
    \/ Except
    \/ VenueFill

Spec == Init /\ [][Next]_vars

----------------------------------------------------------------------------
(* Vocabulary of the properties *)

Min(a, b) == IF a < b THEN a ELSE b

Tracked == DOMAIN buy_orders

CallIdx == 1..Len(calls)

IsCancel(c) == c.op = "cancel_order"

IsPlace(c, site) == c.op = "create_order" /\ c.site = site

StaleAge == ExpiryMinutes * 60

InSnapshot(id) == \E k \in 1..Len(open_orders) : open_orders[k].id = id

----------------------------------------------------------------------------
(* C1: a sell placement is attempted at most once per buy-fill order id,   *)
(* over all cycles and however often the fill is reported again; the id is *)
(* marked executed whether or not the placement succeeded, so a failed     *)
(* sell placement is never retried.                                        *)
NoDuplicateConversion ==
    /\ \A i, j \in 1..Len(sellLog) :
         sellLog[i].order = sellLog[j].order => i = j
    /\ \A i \in 1..Len(sellLog) : Contains(executed_buys, sellLog[i].order)
    /\ \A i, j \in 1..Len(executed_buys) :
         executed_buys[i] = executed_buys[j] => i = j

\* a failed sell placement of an earlier cycle whose fill is reported again
\* and has been passed over by the conversion loop of this cycle
C1_Witness ==
    /\ pc = "replenish"
    /\ \E i \in 1..Len(sellLog) :
         /\ ~sellLog[i].ok
         /\ sellLog[i].cycle < cycle
         /\ \E k \in 1..Len(filled_orders) :
              filled_orders[k].order = sellLog[i].order

----------------------------------------------------------------------------
(* C2: once the fill of a tracked buy order has been detected (the order   *)
(* is absent from the open-orders snapshot and a buy fill for it has been  *)
(* processed), its id is no longer in buy_orders.                          *)
FillRemovesTracked ==
    (/\ pc \in {"replenish", "sleep"}
     /\ calls[2].op = "fetch_open_orders"
     /\ calls[2].ok)
    => \A k \in 1..Len(filled_orders) :
         (/\ filled_orders[k].side = "buy"
          /\ Contains(executed_buys, filled_orders[k].order)
          /\ ~InSnapshot(filled_orders[k].order))
         => filled_orders[k].order \notin Tracked

----------------------------------------------------------------------------
(* C3: buy_orders holds no id of an order the controller has successfully  *)
(* cancelled.                                                              *)
CancelledLeavesTracked ==
    \A id \in Tracked : orders[id].status # "cancelled"

----------------------------------------------------------------------------
(* C4 as stated: from empty tracking, with no expiration, no fill and no   *)
(* failed call, the tracked count equals the target depth after the first  *)
(* cycle; with depth 2, offset 1.0, tick 0.1 and price 50.0 the first      *)
(* cycle places two buys at 49.0.                                          *)
FirstCycleReachesDepth ==
    (cycle = 1 /\ pc = "sleep" /\ clean)
    => /\ Cardinality(Tracked) = num_orders
       /\ (num_orders = 2 /\ tick_size = 1 /\ price_difference = 10
           /\ calls[1].price = 500)
          => Cardinality({i \in CallIdx : /\ calls[i].op = "create_order"
                                          /\ calls[i].side = "buy"
                                          /\ calls[i].price = 490}) = 2

(* C4 amended: one buy is added per such cycle, so the tracked count after *)
(* k cycles is min(k, depth); each of these cycles up to the depth places  *)
(* exactly one buy, at round(price - offset, tick), which is 49.0 in the   *)
(* scenario.                                                               *)
OneBuyPerCleanCycle ==
    (pc = "sleep" /\ clean)
    => /\ Cardinality(Tracked) = Min(cycle, num_orders)
       /\ LET buys == {i \in CallIdx : /\ calls[i].op = "create_order"
                                       /\ calls[i].side = "buy"}
          IN  /\ Cardinality(buys) = IF cycle <= num_orders THEN 1 ELSE 0
              /\ \A i \in buys :
                   /\ calls[i].ok
                   /\ calls[i].price =
                        round_price(calls[1].price - price_difference,
                                    tick_size)
                   /\ (tick_size = 1 /\ price_difference = 10
                       /\ calls[1].price = 500) => calls[i].price = 490

C4_Witness ==
    /\ cycle = 1 /\ pc = "sleep" /\ clean
    /\ num_orders = 2 /\ tick_size = 1 /\ price_difference = 10
    /\ calls[1].price = 500
    /\ Cardinality(Tracked) = 1
    /\ \E id \in Tracked : buy_orders[id] = 490

----------------------------------------------------------------------------
(* C5: the replenish step adds at most one entry to buy_orders; at or      *)
(* above the target depth it adds none and issues no placement; a count    *)
(* below the target never ends above it.                                   *)
ReplenishAtMostOne ==
    [][(pc = "replenish" /\ pc' = "sleep")
       => /\ Cardinality(DOMAIN buy_orders')
               <= Cardinality(DOMAIN buy_orders) + 1
          /\ \A id \in DOMAIN buy_orders :
               id \in DOMAIN buy_orders' /\ buy_orders'[id] = buy_orders[id]
          /\ Cardinality(DOMAIN buy_orders) >= num_orders
               => /\ buy_orders' = buy_orders
                  /\ calls' = calls
                  /\ orders' = orders
          /\ Cardinality(DOMAIN buy_orders) < num_orders
               => Cardinality(DOMAIN buy_orders') <= num_orders]_vars

\* a cycle whose replenish step found the ladder at target and placed nothing
C5_Witness ==
    /\ pc = "sleep"
    /\ cycle >= 2
    /\ Cardinality(Tracked) = num_orders
    /\ \A i \in CallIdx : ~IsPlace(calls[i], "replenish")
    /\ \A i \in CallIdx : calls[i].ok

----------------------------------------------------------------------------
(* C6 as stated: a failed cancel does not send the cycle to the error path *)
CancelFailureKeepsCycle ==
    (\E i \in CallIdx : IsCancel(calls[i]) /\ ~calls[i].ok) => pc # "except"

(* C6 amended: a failed cancel does not stop the controller, but it ends   *)
(* the cycle: it is the last exchange call of the cycle (no replacement    *)
(* for that order, no later cancel, no fill detection, no replenish), and  *)
(* the cycle ends with the cooldown sleep.                                 *)
CancelFailureAbortsCycle ==
    \A i \in CallIdx :
      (IsCancel(calls[i]) /\ ~calls[i].ok)
      => /\ i = Len(calls)
         /\ pc \in {"except", "loop"}
         /\ pc = "loop" => lastSleep = CooldownSeconds

\* the cooldown has been slept after a failed cancel that left the ladder
\* below target with no replenish attempted
C6_Witness ==
    /\ pc = "loop"
    /\ lastSleep = CooldownSeconds
    /\ Len(calls) >= 3
    /\ IsCancel(calls[Len(calls)]) /\ ~calls[Len(calls)].ok
    /\ Cardinality(Tracked) < num_orders

----------------------------------------------------------------------------
(* C7: a failed price fetch is the only call of its cycle: nothing is     *)
(* placed or cancelled, buy_orders and executed_buys keep their values,    *)
(* and the next cycle starts after the cooldown of 5, not the cadence.     *)
PriceFailureCooldown ==
    [][/\ (pc = "loop" /\ pc' = "except")
          => /\ buy_orders' = buy_orders
             /\ executed_buys' = executed_buys
             /\ orders' = orders
             /\ Len(calls') = 1
             /\ calls'[1].op = "fetch_ticker"
       /\ (pc = "except" /\ pc' # "except")
          => /\ pc' = "loop"
             /\ lastSleep' = 5
             /\ clock' = clock + 5
             /\ lastSleep' # CadenceSeconds
             /\ buy_orders' = buy_orders
             /\ executed_buys' = executed_buys
             /\ orders' = orders
             /\ calls' = calls]_vars

C7_Witness ==
    /\ pc = "loop"
    /\ lastSleep = 5
    /\ Len(calls) = 1
    /\ ~calls[1].ok
    /\ Tracked # {}

----------------------------------------------------------------------------
(* C8: after a rejected buy placement nothing is registered for it, and    *)
(* when the rejection left fewer open buys than the target depth and no    *)
(* buy placement has succeeded since, every later cycle that reaches the   *)
(* replenish step with the ladder still short attempts a replenishment     *)
(* buy.                                                                    *)
RejectedBuyMadeUp ==
    /\ \A i \in CallIdx :
         (calls[i].op = "create_order" /\ ~calls[i].ok)
         => calls[i].id \notin Tracked
    /\ (pc = "sleep" /\ owed # 0 /\ owed < cycle /\ OpenBuyCount < num_orders)
       => \E i \in CallIdx : IsPlace(calls[i], "replenish")

----------------------------------------------------------------------------
(* C9: every cancel of a cycle is for an order of the snapshot with side   *)
(* buy and age strictly above the threshold (an age equal to it is not     *)
(* cancelled), and once the expire loop has ended without a failed cancel, *)
(* every buy order of the snapshot older than the threshold has had its    *)
(* cancel issued.                                                          *)
ExpiryCorrect ==
    /\ \A i \in CallIdx :
         IsCancel(calls[i])
         => \E k \in 1..Len(open_orders) :
              /\ open_orders[k].id = calls[i].id
              /\ open_orders[k].side = "buy"
              /\ now - open_orders[k].timestamp > StaleAge
    /\ pc \in {"filled", "convert", "replenish", "sleep"}
       => \A k \in 1..Len(open_orders) :
            (/\ open_orders[k].side = "buy"
             /\ now - open_orders[k].timestamp > StaleAge)
            => \E i \in CallIdx :
                 IsCancel(calls[i]) /\ calls[i].id = open_orders[k].id

\* the expire loop has passed a buy order aged exactly the threshold
C9_Witness ==
    /\ pc = "filled"
    /\ \E k \in 1..Len(open_orders) :
         /\ open_orders[k].side = "buy"
         /\ now - open_orders[k].timestamp = StaleAge
    /\ \A i \in CallIdx : ~IsCancel(calls[i])

----------------------------------------------------------------------------
(* C10: a successful cancel is directly followed by exactly one buy        *)
(* placement at round(price - offset, tick) for the price fetched in the   *)
(* same cycle; a successful placement is registered in buy_orders under    *)
(* the new id with that price; a replacement is placed only directly after *)
(* a successful cancel.                                                    *)
ReplacementFollowsCancel ==
    \A i \in CallIdx :
      /\ (IsCancel(calls[i]) /\ calls[i].ok)
         => /\ i < Len(calls)
            /\ IsPlace(calls[i + 1], "replace")
            /\ calls[i + 1].side = "buy"
            /\ calls[i + 1].ref = calls[i].id
            /\ calls[i + 1].price =
                 round_price(calls[1].price - price_difference, tick_size)
            /\ calls[i + 1].ok
               => /\ calls[i + 1].id \in Tracked
                  /\ buy_orders[calls[i + 1].id] = calls[i + 1].price
                  /\ orders[calls[i + 1].id].price = calls[i + 1].price
            /\ Cardinality({j \in CallIdx : /\ IsPlace(calls[j], "replace")
                                            /\ calls[j].ref = calls[i].id}) = 1
      /\ IsPlace(calls[i], "replace")
         => /\ i > 1
            /\ IsCancel(calls[i - 1])
            /\ calls[i - 1].ok
      /\ (calls[i].op = "create_order" /\ calls[i].side = "buy")
         => calls[i].site \in {"replace", "replenish"}

\* a stale order was cancelled and replaced at a price that needed rounding
C10_Witness ==
    /\ tick_size = 5
    /\ calls # <<>>
    /\ calls[1].price = 503
    /\ \E i \in CallIdx :
         /\ IsCancel(calls[i]) /\ calls[i].ok
         /\ i < Len(calls)
         /\ calls[i + 1].ok
         /\ calls[i + 1].price = 495

----------------------------------------------------------------------------
(* The controller once it is in the loop, with steps that are taken when   *)
(* they can be: the loop is sequential and every call returns or raises.   *)
(* One run is followed: tick 0.5, depth 1 and no order at startup; its own *)
(* buy goes stale, so that every kind of call is issued and may fail.      *)
LiveInit == Init /\ symbols_has /\ market.price = 5 /\ num_orders = 1

LiveSpec == LiveInit /\ [][Next]_vars /\ WF_vars(Next)

InCycle == {"open", "expire", "filled", "convert", "replenish", "sleep",
            "except"}

(* C11: in the loop no failed call ends the controller: it never returns   *)
(* after its first cycle has started, every cycle ends in the cadence      *)
(* sleep or the cooldown sleep, and after the sleep the next cycle starts  *)
(* (for as many cycles as are explored).                                   *)
ControllerNeverStops ==
    /\ [](pc = "exit" => cycle = 0)
    /\ (pc \in InCycle)
         ~> (pc = "loop" /\ lastSleep \in {CadenceSeconds, CooldownSeconds})
    /\ (pc = "loop" /\ cycle < MaxCycles) ~> (pc \in {"open", "except"})

\* a cycle has started after the venue failed as many calls as it may, the
\* last failure having ended the previous cycle in the cooldown
C11_Witness ==
    /\ pc = "open"
    /\ cycle >= 3
    /\ lastSleep = CooldownSeconds
    /\ events = MaxEvents
    /\ trades = <<>>

----------------------------------------------------------------------------
IsMultiple(p, t) == IF t = 0 THEN p = 0 ELSE p % t = 0

(* C12: every price submitted in a placement (replacement buy, replenish   *)
(* buy, paired sell) is an integer multiple of the tick size the           *)
(* controller entered the loop with.                                       *)
PricesOnTick ==
    \A i \in CallIdx :
      calls[i].op = "create_order" => IsMultiple(calls[i].price, tick_size)

----------------------------------------------------------------------------
(* C13: the sell placed for a buy fill has the price                       *)
(* round(fillPrice + offset, tick) of that fill, whatever the market price *)
(* of the cycle is; a fill at 100.0 with offset 2.0 and tick 0.5 gives a   *)
(* sell at 102.0.                                                          *)
SellFromFillPrice ==
    /\ \A i \in CallIdx :
         IsPlace(calls[i], "sell")
         => /\ calls[i].side = "sell"
            /\ \E k \in 1..Len(filled_orders) :
                 /\ filled_orders[k].order = calls[i].ref
                 /\ filled_orders[k].side = "buy"
                 /\ calls[i].price =
                      round_price(filled_orders[k].price + price_difference,
                                  tick_size)
            /\ calls[i].ok => orders[calls[i].id].price = calls[i].price
    /\ round_price(1000 + 20, 5) = 1020

\* a sell was placed whose price differs from what the market price of the
\* cycle would give
C13_Witness ==
    \E i \in CallIdx :
      /\ IsPlace(calls[i], "sell")
      /\ calls[i].ok
      /\ orders[calls[i].ref].mine
      /\ calls[i].price = orders[calls[i].ref].price + price_difference
      /\ calls[i].price #
           round_price(calls[1].price + price_difference, tick_size)

----------------------------------------------------------------------------
----------------------------------------------------------------------------
(* round_price on its own: a price and a tick size are drawn, round_price  *)
(* is applied to the price and then to its own result; calls records the   *)
(* results.                                                                *)
RoundTicks == {1, 2, 3, 4, 5, 10}

RoundInit ==
    /\ pc = "round"
    /\ current_price \in 1..MaxPrice
    /\ tick_size \in RoundTicks
    /\ symbols_has = TRUE
    /\ market = [present |-> TRUE, has_precision |-> TRUE, price |-> tick_size]
    /\ num_orders = 1
    /\ price_difference = 0
    /\ buy_orders = <<>>
    /\ executed_buys = <<>>
    /\ open_orders = <<>>
    /\ oi = 1
    /\ now = 0
    /\ filled_orders = <<>>
    /\ ti = 1
    /\ orders = <<>>
    /\ trades = <<>>
    /\ last = current_price
    /\ clock = StartClock
    /\ cycle = 0
    /\ lastSleep = 0
    /\ calls = <<>>
    /\ sellLog = <<>>
    /\ clean = TRUE
    /\ owed = 0
    /\ events = 0

RoundAgain ==
    /\ pc = "round"
    /\ Len(calls) < 2
    /\ LET price == IF calls = <<>> THEN current_price
                    ELSE calls[Len(calls)].price
       IN  calls' = Append(calls,
               Call("round_price", "-", 0, 0, "-",
                    round_price(price, tick_size), TRUE))
    /\ UNCHANGED <<pc, symbols_has, market, tick_size, num_orders,
                   price_difference, buy_orders, executed_buys, current_price,
                   open_orders, oi, now, filled_orders, ti, orders, trades,
                   last, clock, cycle, lastSleep, sellLog, clean, owed,
                   events>>

RoundSpec == RoundInit /\ [][RoundAgain]_vars

(* C15: round_price(round_price(p, t), t) = round_price(p, t) for          *)
(* positive prices p and tick sizes t.                                     *)
RoundingIdempotent ==
    Len(calls) = 2 => calls[2].price = calls[1].price

\* a price half-way between two ticks was rounded, and the result rounded
\* again
C15_Witness ==
    /\ Len(calls) = 2
    /\ 2 * (current_price % tick_size) = tick_size
    /\ calls[1].price # current_price

----------------------------------------------------------------------------
(* C16: a failed fetch of the open orders or of the recent fills is an     *)
(* empty snapshot: no cancel, respectively no sell, in that cycle; the     *)
(* later steps of the cycle still run, replenish included, and the cycle   *)
(* ends with the cadence sleep, not the cooldown.                          *)
FetchFailed(op) == \E i \in CallIdx : calls[i].op = op /\ ~calls[i].ok

LaterStepsRan ==
    /\ pc # "except"
    /\ pc \in {"sleep", "loop"} =>
         /\ \E i \in CallIdx : calls[i].op = "fetch_my_trades"
         /\ \/ \E i \in CallIdx : IsPlace(calls[i], "replenish")
            \/ Cardinality(Tracked) >= num_orders
    /\ pc = "loop" => lastSleep = CadenceSeconds

FetchFailureIsolated ==
    /\ FetchFailed("fetch_open_orders") =>
         /\ open_orders = <<>>
         /\ \A i \in CallIdx : ~IsCancel(calls[i])
         /\ LaterStepsRan
    /\ FetchFailed("fetch_my_trades") =>
         /\ filled_orders = <<>>
         /\ \A i \in CallIdx : ~IsPlace(calls[i], "sell")
         /\ LaterStepsRan

\* the open-orders fetch failed while a stale buy was open on the venue; the
\* cycle still replenished and slept the cadence
C16_Witness ==
    /\ pc = "loop"
    /\ lastSleep = CadenceSeconds
    /\ FetchFailed("fetch_open_orders")
    /\ \E i \in CallIdx : IsPlace(calls[i], "replenish") /\ calls[i].ok
    /\ \E id \in Ids : /\ orders[id].status = "open"
                       /\ orders[id].side = "buy"
                       /\ now - orders[id].timestamp > StaleAge

----------------------------------------------------------------------------
(* C17: after any sequence of cycles, expirations, fills and failed calls  *)
(* included, the number of entries of buy_orders never exceeds num_orders. *)
TrackedWithinDepth == Cardinality(Tracked) <= num_orders

----------------------------------------------------------------------------
(* C18: when the account holds no buy orders other than those the          *)
(* controller placed, the number of buy orders open on the venue at the    *)
(* same time never exceeds num_orders: replenish places a buy only while   *)
(* fewer than num_orders are tracked, and the expire step places one buy   *)
(* only after it cancelled one.                                            *)
OnlyOwnBuys == \A id \in Ids : orders[id].side = "buy" => orders[id].mine

OpenBuysWithinDepth ==
    /\ OnlyOwnBuys => OpenBuyCount <= num_orders
    /\ \A i \in CallIdx :
         IsPlace(calls[i], "replace") =>
            i > 1 /\ IsCancel(calls[i - 1]) /\ calls[i - 1].ok
                  /\ calls[i - 1].id = calls[i].ref

\* a full ladder of own buys in which a stale buy was cancelled and replaced
C18_Witness ==
    /\ OnlyOwnBuys
    /\ num_orders = 2
    /\ OpenBuyCount = num_orders
    /\ \E i \in CallIdx : IsPlace(calls[i], "replace") /\ calls[i].ok
    /\ \E id \in Ids : orders[id].mine /\ orders[id].status = "cancelled"

----------------------------------------------------------------------------
(* C19: a sell is placed only for the fill of a buy order the controller   *)
(* placed: every id in executed_buys is an id of buy_orders, and every     *)
(* sell attempt refers to such an id; buy fills already in the trade       *)
(* history at startup, or of foreign orders, trigger no sell.              *)
SellOnlyForOwnFills ==
    /\ \A i \in 1..Len(executed_buys) : executed_buys[i] \in Tracked
    /\ \A i \in 1..Len(sellLog) :
         sellLog[i].order \in Tracked /\ orders[sellLog[i].order].mine

----------------------------------------------------------------------------
(* C20: the controller never calls cancel_order for a sell order, whatever *)
(* its age, and never registers a sell order id in buy_orders; a sell      *)
(* order, once placed, is left untouched by every later step.              *)
SellsLeftAlone ==
    /\ [](/\ \A i \in CallIdx :
               IsCancel(calls[i]) => orders[calls[i].id].side = "buy"
          /\ \A id \in Tracked : orders[id].side = "buy")
    /\ [][\A id \in Ids :
            orders[id].side = "sell" => orders'[id] = orders[id]]_vars

\* the expire loop has gone over a snapshot holding a paired sell older than
\* three minutes
C20_Witness ==
    /\ pc = "filled"
    /\ \E k \in 1..Len(open_orders) :
         /\ open_orders[k].side = "sell"
         /\ orders[open_orders[k].id].mine
         /\ now - open_orders[k].timestamp > StaleAge
         /\ orders[open_orders[k].id].status = "open"

====
